---- MODULE Spec2Model ----
(***************************************************************************)
(* Verification model of ttim/well.py: WellBase, DischargeWell, HeadWell.  *)
(*                                                                         *)
(* One well instance is followed from its constructor call through         *)
(* initialize() and the influence queries potinf / disinf / layout.        *)
(*                                                                         *)
(* The Python object is the variable self, a function from attribute names *)
(* to values whose DOMAIN is the set of attributes assigned so far; a read *)
(* of an attribute outside DOMAIN self is Python's AttributeError.         *)
(*                                                                         *)
(* Numbers.  Coordinates and the radius are integers on a grid; the        *)
(* observation points are those at an integer distance from the well, so   *)
(* np.sqrt is exact.  Every other number is a value of an exact monomial   *)
(* algebra: a rational coefficient times a quotient of products of opaque  *)
(* atoms pi, K0(a), K1(a) (a rational).  The modified Bessel functions are *)
(* therefore uninterpreted, injective and never zero on non-zero           *)
(* arguments; kv(nu, 0) = inf and every division by zero give NonFinite,   *)
(* which absorbs (it lumps IEEE inf and nan).  Decay lengths are taken on  *)
(* the positive real axis of the complex plane.                            *)
(***************************************************************************)
EXTENDS Integers, Sequences, FiniteSets, Bags, TLC

VARIABLES args, stage, self, elementList, ret

vars == <<args, stage, self, elementList, ret>>

----------------------------------------------------------------------------
(* Bounds of the model *)

MaxX == 4        \* observation points have 0 <= x <= MaxX
MaxY == 3        \* observation points have 0 <= y <= MaxY

----------------------------------------------------------------------------
(* Exact arithmetic *)

RECURSIVE GCD(_, _)
GCD(a, b) == IF b = 0 THEN a ELSE GCD(b, a % b)

IAbs(n) == IF n < 0 THEN -n ELSE n

NonFinite == [n |-> 0, d |-> 0, up |-> EmptyBag, dn |-> EmptyBag]
Zero == [n |-> 0, d |-> 1, up |-> EmptyBag, dn |-> EmptyBag]

IsNonFinite(v) == v.d = 0
IsZero(v) == v.d # 0 /\ v.n = 0

\* the value n/d * up/dn in lowest terms
Norm(n, d, up, dn) ==
  IF d = 0 THEN NonFinite
  ELSE IF n = 0 THEN Zero
  ELSE LET g == GCD(IAbs(n), IAbs(d))
           s == IF d < 0 THEN -1 ELSE 1
       IN [n |-> s * (n \div g), d |-> s * (d \div g),
           up |-> up (-) dn, dn |-> dn (-) up]

R(n, d) == Norm(n, d, EmptyBag, EmptyBag)
Int2V(n) == R(n, 1)
One == Int2V(1)

Mul(a, b) ==
  IF IsNonFinite(a) \/ IsNonFinite(b) THEN NonFinite
  ELSE Norm(a.n * b.n, a.d * b.d, a.up (+) b.up, a.dn (+) b.dn)

Div(a, b) ==
  IF IsNonFinite(a) \/ IsNonFinite(b) \/ IsZero(b) THEN NonFinite
  ELSE Norm(a.n * b.d, a.d * b.n, a.up (+) b.dn, a.dn (+) b.up)

\* sum of like terms (the same atoms), as in np.sum of rational entries
Add(a, b) ==
  IF IsNonFinite(a) \/ IsNonFinite(b) THEN NonFinite
  ELSE IF IsZero(a) THEN b
  ELSE IF IsZero(b) THEN a
  ELSE Norm(a.n * b.d + b.n * a.d, a.d * b.d, a.up, a.dn)

VAbs(a) == [a EXCEPT !.n = IAbs(a.n)]

\* a < b on rationals; a comparison with nan is False
Less(a, b) ==
  /\ ~IsNonFinite(a)
  /\ ~IsNonFinite(b)
  /\ a.n * b.d < b.n * a.d

Atom(name, a) == [n |-> 1, d |-> 1, up |-> SetToBag({<<name, a.n, a.d>>}), dn |-> EmptyBag]

Pi == Atom("pi", One)

\* scipy.special.kv(nu, z): opaque; kv(nu, 0) = inf
kv(nu, z) ==
  IF IsNonFinite(z) \/ IsZero(z) THEN NonFinite
  ELSE Atom(IF nu = 0 THEN "K0" ELSE "K1", z)

\* np.sqrt on the perfect squares the model draws
Sqrt(n) == CHOOSE s \in 0..n : s * s = n
IsSquare(n) == \E s \in 0..n : s * s = n

RECURSIVE SumSeq(_, _)
SumSeq(f, m) == IF m < 0 THEN Zero ELSE Add(SumSeq(f, m - 1), f[m])

----------------------------------------------------------------------------
(* The owning model and its aquifer contexts (external collaborators) *)

Naq == 2         \* aq.Naq, layers of every aquifer context
Nin == 2         \* model.Nin, time intervals
Npin == 2        \* model.Npin, Laplace parameters per interval
Np == Nin * Npin \* model.Np
Ngvbc == 2       \* model.Ngvbc
Rzero == 2       \* Element.Rzero, the cutoff of r / |lab|
Xsplit == 2      \* context aqA covers x < Xsplit, context aqB the rest
Xend == 3        \* no context covers x > Xend

None == "None"
Aquifers == {"aqA", "aqB"}
AqShift(a) == IF a = "aqA" THEN 0 ELSE 1

\* model.p[k], the Laplace parameters
p == [k \in 0..(Np - 1) |-> R(k + 1, 2)]

\* aq.lab[i, k], the decay lengths
labOf(a) == [i \in 0..(Naq - 1) |-> [k \in 0..(Np - 1) |->
               R(((i + 2 * k + AqShift(a)) % 3) + 1, 2)]]

\* the aquifer contexts: lab[i, k]; lab2[i, j, k], which is lab split into
\* (interval, parameter of the interval); coef[layer, i, k];
\* eigvec[layer, i, k]; Haq[layer]; T[layer]
AquiferData ==
  [a \in Aquifers |->
    [Naq |-> Naq,
     lab |-> labOf(a),
     lab2 |-> [i \in 0..(Naq - 1) |-> [j \in 0..(Nin - 1) |-> [k \in 0..(Npin - 1) |->
                 labOf(a)[i][j * Npin + k]]]],
     coef |-> [l \in 0..(Naq - 1) |-> [i \in 0..(Naq - 1) |-> [k \in 0..(Np - 1) |->
                 R(1 + ((l + i + k + AqShift(a)) % 2), 1 + (l % 2))]]],
     eigvec |-> [l \in 0..(Naq - 1) |-> [i \in 0..(Naq - 1) |-> [k \in 0..(Np - 1) |->
                   R(IF i = l THEN 2 ELSE -1, 1 + ((k + AqShift(a)) % 2))]]],
     Haq |-> [l \in 0..(Naq - 1) |-> Int2V(l + 2 + AqShift(a))],
     T |-> [l \in 0..(Naq - 1) |-> R(l + 1, 1 + AqShift(a))]]]

\* model.aq.findAquiferData(x, y): the context covering (x, y), if any
Covered(x, y) == x <= Xend
findAquiferData(x, y) == IF x < Xsplit THEN "aqA" ELSE "aqB"

----------------------------------------------------------------------------
(* Tensors: functions over 0-based index ranges, C order *)

Zeros3(a, b, c) == [n \in 0..(a - 1) |-> [i \in 0..(b - 1) |-> [k \in 0..(c - 1) |-> Zero]]]

\* reshape (a, b, Np) -> (a, b, Nin, Npin)
Split(t) == [n \in DOMAIN t |-> [i \in DOMAIN t[n] |-> [j \in 0..(Nin - 1) |-> [k \in 0..(Npin - 1) |->
               t[n][i][j * Npin + k]]]]]

\* reshape (a, b, Nin, Npin) -> (a, b, Np)
Flat(t) == [n \in DOMAIN t |-> [i \in DOMAIN t[n] |-> [k \in 0..(Np - 1) |->
              t[n][i][k \div Npin][k % Npin]]]]

----------------------------------------------------------------------------
(* Element (base class of WellBase) *)

\* Element.__init__: the attributes every element starts with
Element__init__(a, type, name) ==
  [Nparam |-> 1, Nunknowns |-> 0, layers |-> a.layers, pylayers |-> a.layers,
   tsandbc |-> a.tsandbc, type |-> type, name |-> name, Rzero |-> Rzero]

\* Element.storeinput: echo of the constructor arguments
storeinput(a) == [inputargs |-> a]

\* Element.setbc: the boundary-condition series split in times and values
setbc(s) ==
  [tstart |-> [m \in DOMAIN s.tsandbc |-> s.tsandbc[m][1]],
   bcin |-> [m \in DOMAIN s.tsandbc |-> s.tsandbc[m][2]]]

----------------------------------------------------------------------------
(* WellBase *)

WellType(cls) == IF cls = "HeadWell" THEN "v" ELSE "g"

\* variant: the constructor presets the bound context to None
WellBase__init__presetaq(a) ==
  LET e == Element__init__(a, WellType(a.cls), a.cls)
  IN [Nparam |-> Len(e.pylayers), xw |-> a.xw, yw |-> a.yw, rw |-> a.rw, res |-> a.res,
      aq |-> None]
     @@ e

\* WellBase.__init__ up to, not including, model.addElement(self)
WellBase__init__(a) ==
  LET e == Element__init__(a, WellType(a.cls), a.cls)
  IN [Nparam |-> Len(e.pylayers), xw |-> a.xw, yw |-> a.yw, rw |-> a.rw, res |-> a.res]
     @@ e

\* variant: a unit flow coefficient, independent of p
setflowcoef_unit(s) == [k \in 0..(Np - 1) |-> One]

\* variant: the step scaled by the value of the series, Q / p
setflowcoef_scaled(s) == [k \in 0..(Np - 1) |-> Div(Int2V(s.tsandbc[1][2]), p[k])]

\* WellBase.setflowcoef: the value assigned to self.flowcoef
setflowcoef(s) == [k \in 0..(Np - 1) |-> Div(One, p[k])]

\* lines 17-18: the control point
ControlPoint(s) == [xc |-> <<s.xw + s.rw>>, yc |-> <<s.yw>>, Ncp |-> 1]

\* the attributes initialize() assigns
InitializeAttrs ==
  {"xc", "yc", "Ncp", "aq", "tstart", "bcin", "flowcoef", "term", "term2", "strengthinf",
   "strengthinflayers", "resfach", "resfacp", "parameters", "pc"}

\* WellBase.initialize: the attributes it assigns, for a covered well
WellBase_initialize(s) ==
  LET aq == findAquiferData(s.xw, s.yw)
      A == AquiferData[aq]
      NP == 0..(s.Nparam - 1)
      NA == 0..(A.Naq - 1)
      NK == 0..(Np - 1)
      rw == Int2V(s.rw)
      coef == [n \in NP |-> A.coef[s.pylayers[n + 1]]]
      laboverrwk1 == [i \in NA |-> [k \in NK |->
                        Div(A.lab[i][k], Mul(rw, kv(1, Div(rw, A.lab[i][k]))))]]
      flowcoef == setflowcoef(s)
      term == [n \in NP |-> [i \in NA |-> [k \in NK |->
                Mul(Mul(Mul(Div(Int2V(-1), Mul(Int2V(2), Pi)), laboverrwk1[i][k]),
                        flowcoef[k]), coef[n][i][k])]]]
      strengthinf == [n \in NP |-> [i \in NA |-> [k \in NK |-> Mul(flowcoef[k], coef[n][i][k])]]]
      resfach == [n \in NP |->
                    Div(Int2V(s.res), Mul(Mul(Mul(Int2V(2), Pi), rw), A.Haq[s.pylayers[n + 1]]))]
  IN [aq |-> aq, flowcoef |-> flowcoef, term |-> term, term2 |-> Split(term),
      strengthinf |-> strengthinf,
      strengthinflayers |-> [n \in NP |-> [k \in NK |->
          SumSeq([i \in NA |-> Mul(strengthinf[n][i][k], A.eigvec[s.pylayers[n + 1]][i][k])],
                 A.Naq - 1)]],
      resfach |-> resfach,
      resfacp |-> [n \in NP |-> Mul(resfach[n], A.T[s.pylayers[n + 1]])]]
     @@ setbc(s) @@ ControlPoint(s) @@ s

\* HeadWell.initialize
HeadWell_initialize(s) ==
  LET b == WellBase_initialize(s)
  IN [parameters |-> Zeros3(Ngvbc, b.Nparam, Np),
      pc |-> [n \in 0..(b.Nparam - 1) |-> AquiferData[b.aq].T[b.pylayers[n + 1]]]] @@ b

\* r of lines 38 and 40 (56 and 58): the distance, clamped to the radius
Radius(s, x, y) ==
  LET r == Sqrt((x - s.xw) * (x - s.xw) + (y - s.yw) * (y - s.yw))
  IN IF r < s.rw THEN s.rw ELSE r

\* the test of lines 37 and 54
SameAquifer_always(s, aq) == TRUE
SameAquifer(s, aq) == aq = s.aq

\* variant: the cutoff decided by each parameter k on its own
BelowCutoff_perparam(s, r, i, j, k) ==
  Less(Div(Int2V(r), VAbs(AquiferData[s.aq].lab2[i][j][k])), Int2V(s.Rzero))

\* the test of lines 43 and 61, as applied to the entry (i, j, k)
BelowCutoff(s, r, i, j, k) ==
  Less(Div(Int2V(r), VAbs(AquiferData[s.aq].lab2[i][j][0])), Int2V(s.Rzero))

\* WellBase.potinf: how the call ends and the tensor it returns
potinf(s, x, y, aq) ==
  IF aq = None /\ ~Covered(x, y) THEN [status |-> "ConfigurationError", rv |-> <<>>]
  ELSE IF "aq" \notin DOMAIN s THEN [status |-> "AttributeError", rv |-> <<>>]
  ELSE
    LET aq1 == IF aq = None THEN findAquiferData(x, y) ELSE aq
        lab2 == AquiferData[s.aq].lab2
        r == Radius(s, x, y)
        rv == [n \in 0..(s.Nparam - 1) |-> [i \in 0..(AquiferData[aq1].Naq - 1) |->
                 [j \in 0..(Nin - 1) |-> [k \in 0..(Npin - 1) |->
                    IF SameAquifer(s, aq1) /\ BelowCutoff(s, r, i, j, k)
                    THEN Mul(s.term2[n][i][j][k], kv(0, Div(Int2V(r), lab2[i][j][k])))
                    ELSE Zero]]]]
    IN [status |-> "ok", rv |-> Flat(rv)]

\* WellBase.disinf: how the call ends, the tensors it returns and its local qr
disinf(s, x, y, aq) ==
  IF aq = None /\ ~Covered(x, y)
  THEN [status |-> "ConfigurationError", qx |-> <<>>, qy |-> <<>>, qr |-> <<>>]
  ELSE IF "aq" \notin DOMAIN s
  THEN [status |-> "AttributeError", qx |-> <<>>, qy |-> <<>>, qr |-> <<>>]
  ELSE
    LET aq1 == IF aq = None THEN findAquiferData(x, y) ELSE aq
        lab2 == AquiferData[s.aq].lab2
        r == Radius(s, x, y)
        qr4 == [n \in 0..(s.Nparam - 1) |-> [i \in 0..(AquiferData[aq1].Naq - 1) |->
                 [j \in 0..(Nin - 1) |-> [k \in 0..(Npin - 1) |->
                    IF BelowCutoff(s, r, i, j, k)
                    THEN Div(Mul(s.term2[n][i][j][k], kv(1, Div(Int2V(r), lab2[i][j][k]))),
                             lab2[i][j][k])
                    ELSE Zero]]]]
        qr == Flat(qr4)
        Dir(d) == [n \in DOMAIN qr |-> [i \in DOMAIN qr[n] |-> [k \in DOMAIN qr[n][i] |->
                     Div(Mul(qr[n][i][k], Int2V(d)), Int2V(r))]]]
    IN IF SameAquifer(s, aq1)
       THEN [status |-> "ok", qx |-> Dir(x - s.xw), qy |-> Dir(y - s.yw), qr |-> qr]
       ELSE [status |-> "ok", qx |-> Zeros3(s.Nparam, AquiferData[aq1].Naq, Np),
             qy |-> Zeros3(s.Nparam, AquiferData[aq1].Naq, Np), qr |-> <<>>]

\* WellBase.layout
layout(s) == <<"point", s.xw, s.yw>>

\* variant: the looked-up context is stored on the well
potinf_self_rebind(s, x, y, aq) ==
  IF aq = None /\ Covered(x, y) THEN [aq |-> findAquiferData(x, y)] @@ s ELSE s

\* the object after potinf, disinf and layout: none of them assigns to self
potinf_self(s, x, y, aq) == s
disinf_self(s, x, y, aq) == s
layout_self(s) == s

----------------------------------------------------------------------------
(* The state machine *)

Classes == {"DischargeWell", "HeadWell"}
LayerChoices == {<<0>>, <<0, Naq - 1>>}

\* the constructor calls: wells of radius 2 inside context aqA, wells of a
\* non-positive radius there, and one well of each class where no context
\* covers it
ArgSet ==
  [cls : Classes, xw : {1}, yw : {0}, rw : {2}, res : {0, 1},
   layers : LayerChoices, tsandbc : {<<<<0, Q>>>> : Q \in {1, 2}}]
  \cup
  [cls : Classes, xw : {1}, yw : {0}, rw : {-1, 0}, res : {1},
   layers : {<<0>>}, tsandbc : {<<<<0, 1>>>>}]
  \cup
  [cls : Classes, xw : {Xend + 1}, yw : {0}, rw : {2}, res : {0},
   layers : {<<0>>}, tsandbc : {<<<<0, 1>>>>}]

\* the observation points, at an integer distance from the well
ObsPoints(s) ==
  {pt \in (0..MaxX) \X (0..MaxY) :
     IsSquare((pt[1] - s.xw) * (pt[1] - s.xw) + (pt[2] - s.yw) * (pt[2] - s.yw))}

NoRet == [op |-> "none", status |-> "ok", x |-> 0, y |-> 0, aq |-> None,
          rv |-> <<>>, qx |-> <<>>, qy |-> <<>>, qr |-> <<>>, pt |-> <<>>]

Init ==
  /\ args \in ArgSet
  /\ stage = "new"
  /\ self = [a \in {} |-> None]
  /\ elementList = <<>>
  /\ ret = NoRet

\* DischargeWell(...) whole, and HeadWell(...) up to the return of
\* WellBase.__init__, which ends with model.addElement(self): storeinput
\* (lines 75, 81), then WellBase.__init__ (lines 76, 82)
Construct ==
  /\ stage = "new"
  /\ self' = WellBase__init__(args) @@ storeinput(args)
  /\ elementList' = Append(elementList, "well")
  /\ stage' = IF args.cls = "HeadWell" THEN "HeadWell__init__" ELSE "constructed"
  /\ ret' = [NoRet EXCEPT !.op = "WellBase.__init__"]
  /\ UNCHANGED args

\* variant: line 83 left out
HeadWell__init__nounknowns ==
  /\ stage = "HeadWell__init__"
  /\ self' = self
  /\ stage' = "constructed"
  /\ ret' = [NoRet EXCEPT !.op = "HeadWell.__init__"]
  /\ UNCHANGED <<args, elementList>>

\* HeadWell.__init__, line 83
HeadWell__init__ ==
  /\ stage = "HeadWell__init__"
  /\ self' = [self EXCEPT !.Nunknowns = self.Nparam]
  /\ stage' = "constructed"
  /\ ret' = [NoRet EXCEPT !.op = "HeadWell.__init__"]
  /\ UNCHANGED <<args, elementList>>

\* variant: a call on a bound instance tears it down instead of rebuilding it
initialize_teardown ==
  /\ stage = "constructed"
  /\ IF "aq" \in DOMAIN self
     THEN /\ self' = [a \in DOMAIN self \ InitializeAttrs |-> self[a]]
          /\ ret' = [NoRet EXCEPT !.op = "initialize"]
     ELSE IF Covered(self.xw, self.yw)
     THEN /\ self' = IF args.cls = "HeadWell" THEN HeadWell_initialize(self)
                     ELSE WellBase_initialize(self)
          /\ ret' = [NoRet EXCEPT !.op = "initialize"]
     ELSE /\ self' = ControlPoint(self) @@ self
          /\ ret' = [NoRet EXCEPT !.op = "initialize", !.status = "ConfigurationError"]
  /\ UNCHANGED <<args, stage, elementList>>

\* e.initialize(), dispatched on the class
initialize ==
  /\ stage = "constructed"
  /\ IF Covered(self.xw, self.yw)
     THEN /\ self' = IF args.cls = "HeadWell" THEN HeadWell_initialize(self)
                     ELSE WellBase_initialize(self)
          /\ ret' = [NoRet EXCEPT !.op = "initialize"]
     ELSE /\ self' = ControlPoint(self) @@ self
          /\ ret' = [NoRet EXCEPT !.op = "initialize", !.status = "ConfigurationError"]
  /\ UNCHANGED <<args, stage, elementList>>

Potinf ==
  /\ stage = "constructed"
  /\ \E pt \in ObsPoints(self), aq \in Aquifers \cup {None} :
       LET out == potinf(self, pt[1], pt[2], aq)
       IN /\ ret' = [NoRet EXCEPT !.op = "potinf", !.status = out.status,
                               !.x = pt[1], !.y = pt[2], !.aq = aq, !.rv = out.rv]
          /\ self' = potinf_self(self, pt[1], pt[2], aq)
  /\ UNCHANGED <<args, stage, elementList>>

Disinf ==
  /\ stage = "constructed"
  /\ \E pt \in ObsPoints(self), aq \in Aquifers \cup {None} :
       LET out == disinf(self, pt[1], pt[2], aq)
       IN /\ ret' = [NoRet EXCEPT !.op = "disinf", !.status = out.status,
                               !.x = pt[1], !.y = pt[2], !.aq = aq,
                               !.qx = out.qx, !.qy = out.qy, !.qr = out.qr]
          /\ self' = disinf_self(self, pt[1], pt[2], aq)
  /\ UNCHANGED <<args, stage, elementList>>

Layout ==
  /\ stage = "constructed"
  /\ ret' = [NoRet EXCEPT !.op = "layout", !.pt = layout(self)]
  /\ self' = layout_self(self)
  /\ UNCHANGED <<args, stage, elementList>>

Next ==
  \/ Construct
  \/ HeadWell__init__
  \/ initialize
  \/ Potinf
  \/ Disinf
  \/ Layout

Spec == Init /\ [][Next]_vars

----------------------------------------------------------------------------
(* Vocabulary of the properties *)

Queries == {"potinf", "disinf"}

\* initialize() has completed on the instance (resfacp is its last assignment)
Initialized == "resfacp" \in DOMAIN self

\* the model holds a reference to the well
Registered == Len(elementList) > 0

\* the last call was an influence query that returned
Answered(op) == ret.op = op /\ ret.status = "ok"

\* the aquifer context the last query evaluated the point in
EffAq(x, y, aq) == IF aq = None THEN findAquiferData(x, y) ELSE aq
RetAq == EffAq(ret.x, ret.y, ret.aq)

\* the unclamped distance of (x, y) to the well centre
Dist(x, y) == Sqrt((x - self.xw) * (x - self.xw) + (y - self.yw) * (y - self.yw))

HasShape3(t, a, b, c) ==
  /\ DOMAIN t = 0..(a - 1)
  /\ \A n \in DOMAIN t :
       /\ DOMAIN t[n] = 0..(b - 1)
       /\ \A i \in DOMAIN t[n] : DOMAIN t[n][i] = 0..(c - 1)

AllZero3(t) == \A n \in DOMAIN t : \A i \in DOMAIN t[n] : \A k \in DOMAIN t[n][i] : t[n][i][k] = Zero

SomeNonZero3(t) == \E n \in DOMAIN t : \E i \in DOMAIN t[n] : \E k \in DOMAIN t[n][i] : t[n][i][k] # Zero

----------------------------------------------------------------------------
(* C1: for an initialized well and an observation point whose aquifer      *)
(* context (passed, or looked up when aq is None) is not the well's bound  *)
(* context, potinf returns an all-zero (Nparam, Naq, Np) tensor and disinf *)
(* returns two all-zero tensors, whatever the distance.                    *)
C1_OtherAquiferZero ==
  (Initialized /\ ret.op \in Queries /\ ret.status = "ok" /\ RetAq # self.aq) =>
    /\ ret.op = "potinf" =>
         /\ HasShape3(ret.rv, self.Nparam, AquiferData[RetAq].Naq, Np)
         /\ AllZero3(ret.rv)
    /\ ret.op = "disinf" =>
         /\ HasShape3(ret.qx, self.Nparam, AquiferData[RetAq].Naq, Np)
         /\ HasShape3(ret.qy, self.Nparam, AquiferData[RetAq].Naq, Np)
         /\ AllZero3(ret.qx)
         /\ AllZero3(ret.qy)

\* a well with non-zero terms answers disinf for a point of the other
\* context one grid step from its centre, inside its radius
C1_Witness ==
  /\ Initialized
  /\ Answered("disinf")
  /\ RetAq # self.aq
  /\ ret.aq = None
  /\ Dist(ret.x, ret.y) = 1
  /\ self.rw = 2
  /\ SomeNonZero3(self.term)

(* C2, as claimed: for a point of the well's own aquifer at a distance     *)
(* r < rw (the centre included), potinf and disinf return what they return *)
(* for the point at distance rw on the same ray, entry by entry.           *)
SameRay(x, y, x2, y2) ==
  /\ (x - self.xw) * (y2 - self.yw) = (y - self.yw) * (x2 - self.xw)
  /\ (x - self.xw) * (x2 - self.xw) + (y - self.yw) * (y2 - self.yw) >= 0

C2_ClampSameAsOnRadius ==
  (Initialized /\ ret.op \in Queries /\ ret.status = "ok" /\ RetAq = self.aq
     /\ Dist(ret.x, ret.y) < self.rw) =>
    \A pt \in ObsPoints(self) :
      (/\ Dist(pt[1], pt[2]) = self.rw
       /\ SameRay(ret.x, ret.y, pt[1], pt[2])
       /\ EffAq(pt[1], pt[2], ret.aq) = self.aq) =>
        /\ ret.op = "potinf" => ret.rv = potinf(self, pt[1], pt[2], ret.aq).rv
        /\ ret.op = "disinf" =>
             /\ ret.qx = disinf(self, pt[1], pt[2], ret.aq).qx
             /\ ret.qy = disinf(self, pt[1], pt[2], ret.aq).qy

C4_RejectedAtInitialize ==
  (Initialized \/ {"term", "term2", "resfach", "resfacp"} \cap DOMAIN self # {}) =>
    /\ self.rw > 0
    /\ Len(self.pylayers) > 0
    /\ Covered(self.xw, self.yw)

(* C5, as claimed: after initialize() of a HeadWell its flow coefficient   *)
(* is 1 at every Laplace parameter.                                        *)
C5_HeadWellUnitFlowcoef ==
  (Initialized /\ args.cls = "HeadWell") =>
    \A k \in 0..(Np - 1) : self.flowcoef[k] = One

(* C5, amended: after initialize() of a HeadWell its flow coefficient at   *)
(* the Laplace parameter p is the step coefficient 1/p, as for a           *)
(* DischargeWell; it is 1 only where p = 1.                                *)
C5_HeadWellStepFlowcoef ==
  (Initialized /\ args.cls = "HeadWell") =>
    /\ DOMAIN self.flowcoef = 0..(Np - 1)
    /\ \A k \in 0..(Np - 1) :
         /\ Mul(self.flowcoef[k], p[k]) = One
         /\ self.flowcoef[k] = One <=> p[k] = One

\* an initialized HeadWell in a model with parameters 1 and not 1
C5_Witness ==
  /\ Initialized
  /\ args.cls = "HeadWell"
  /\ \E k \in 0..(Np - 1) : p[k] = One
  /\ \E k \in 0..(Np - 1) : p[k] # One /\ self.flowcoef[k] # One

(* C6, as claimed: for a DischargeWell built with tsandQ = [(0.0, Q)] the  *)
(* flow coefficient precomputed by initialize() at p is Q/p.               *)
SeriesQ == Int2V(args.tsandbc[1][2])

C6_FlowcoefQOverP ==
  (Initialized /\ args.cls = "DischargeWell") =>
    \A k \in 0..(Np - 1) : self.flowcoef[k] = Div(SeriesQ, p[k])

(* C6, amended: for a DischargeWell built with tsandQ = [(0.0, Q)] the     *)
(* flow coefficient precomputed by initialize() at p is 1/p whatever Q is; *)
(* it is Q/p exactly when Q = 1.                                           *)
C6_FlowcoefOneOverP ==
  (Initialized /\ args.cls = "DischargeWell") =>
    \A k \in 0..(Np - 1) :
      /\ self.flowcoef[k] = Div(One, p[k])
      /\ self.flowcoef[k] = Div(SeriesQ, p[k]) <=> SeriesQ = One

\* an initialized DischargeWell of discharge 2
C6_Witness ==
  /\ Initialized
  /\ args.cls = "DischargeWell"
  /\ SeriesQ = Int2V(2)
  /\ self.bcin[1] = 2

(* C7: the counts of a well and the parameter tensor of a HeadWell         *)
Counts ==
  /\ self.Nparam = Len(self.pylayers)
  /\ args.cls = "DischargeWell" => self.Nunknowns = 0
  /\ args.cls = "HeadWell" => self.Nunknowns = self.Nparam
  /\ (args.cls = "HeadWell" /\ Answered("initialize")) =>
       /\ HasShape3(self.parameters, Ngvbc, self.Nparam, Np)
       /\ AllZero3(self.parameters)

(* C7, as claimed: in every state from model.addElement on, Nparam is the  *)
(* number of screened layers, a DischargeWell has Nunknowns = 0, a         *)
(* HeadWell has Nunknowns = Nparam, and after HeadWell.initialize() the    *)
(* parameter tensor is (Ngvbc, Nparam, Np), all zero.                      *)
C7_CountsOnceRegistered == Registered => Counts

(* C7, amended: the same in every state from the return of the well's      *)
(* constructor on; between model.addElement and the end of                 *)
(* HeadWell.__init__ a HeadWell is registered with Nunknowns = 0.          *)
C7_CountsOnceConstructed ==
  /\ stage = "constructed" => Counts
  /\ stage = "HeadWell__init__" => (Registered /\ self.Nunknowns = 0)

\* a HeadWell screened in two layers, just initialized
C7_Witness ==
  /\ args.cls = "HeadWell"
  /\ Answered("initialize")
  /\ Initialized
  /\ self.Nparam = 2
  /\ self.Nunknowns = 2

(* C8, as claimed: once initialize() has completed on an instance it is    *)
(* not applied to that instance again.                                     *)
C8_InitializeOnce ==
  [][Initialized => ret'.op # "initialize"]_vars

(* C8, amended: once initialize() has completed, the instance never        *)
(* returns to Constructed: it stays initialized and bound to the same      *)
(* aquifer context; initialize() can be applied to it again.               *)
C8_NeverBackToConstructed ==
  [][Initialized => (Initialized' /\ "aq" \in DOMAIN self' /\ self'.aq = self.aq)]_vars

\* an initialized HeadWell has gone on to answer layout()
C8_Witness ==
  /\ Initialized
  /\ Answered("layout")
  /\ args.cls = "HeadWell"
  /\ self.aq = "aqA"
  /\ AllZero3(self.parameters)

(* C9: on an initialized well potinf, disinf and layout leave every piece  *)
(* of well state as it was: self.aq, the control point, term, term2,       *)
(* flowcoef, strengthinf, strengthinflayers, resfach, resfacp.             *)
C9_QueriesLeaveWellUnchanged ==
  [][(Initialized /\ ret'.op \in Queries \cup {"layout"}) =>
       /\ DOMAIN self' = DOMAIN self
       /\ \A a \in DOMAIN self : self'[a] = self[a]
       /\ self'.xc = <<self.xw + self.rw>>
       /\ self'.yc = <<self.yw>>]_vars

\* a query looked the context up in the other aquifer, after another query
C9_Witness ==
  /\ Initialized
  /\ Answered("potinf")
  /\ ret.aq = None
  /\ RetAq # self.aq
  /\ self.rw = 2
  /\ args.cls = "DischargeWell"

(* C10: for a point of the well's own aquifer at clamped distance r, the   *)
(* cutoff is decided per (layer i, interval j) by the first parameter of   *)
(* the interval: with r / |lab2[i, j, 0]| >= Rzero every entry of layer i  *)
(* and interval j is exactly zero; otherwise the entry at flat index       *)
(* j * Npin + k is term2[n, i, j, k] * K0(r / lab2[i, j, k]) for potinf    *)
(* and term2[n, i, j, k] * K1(r / lab2[i, j, k]) / lab2[i, j, k] for the   *)
(* radial flux of disinf.                                                  *)
RetR == Int2V(IF Dist(ret.x, ret.y) < self.rw THEN self.rw ELSE Dist(ret.x, ret.y))

FirstRatioBelow(i, j) ==
  Less(Div(RetR, VAbs(AquiferData[self.aq].lab2[i][j][0])), Int2V(Rzero))

C10_CutoffByFirstParameter ==
  (Initialized /\ ret.op \in Queries /\ ret.status = "ok" /\ RetAq = self.aq) =>
    LET L == AquiferData[self.aq].lab2
        out == IF ret.op = "potinf" THEN ret.rv ELSE ret.qr
    IN /\ HasShape3(out, self.Nparam, Naq, Np)
       /\ \A n \in 0..(self.Nparam - 1), i \in 0..(Naq - 1), j \in 0..(Nin - 1),
             k \in 0..(Npin - 1) :
            out[n][i][j * Npin + k] =
              IF ~FirstRatioBelow(i, j) THEN Zero
              ELSE IF ret.op = "potinf"
              THEN Mul(self.term2[n][i][j][k], kv(0, Div(RetR, L[i][j][k])))
              ELSE Div(Mul(self.term2[n][i][j][k], kv(1, Div(RetR, L[i][j][k]))), L[i][j][k])

\* potinf in the own aquifer where one interval is cut off by its first
\* parameter though a later parameter of it is below the cutoff, and
\* another interval is evaluated
C10_Witness ==
  /\ Initialized
  /\ Answered("potinf")
  /\ RetAq = self.aq
  /\ SomeNonZero3(self.term)
  /\ \E i \in 0..(Naq - 1), j \in 0..(Nin - 1), k \in 1..(Npin - 1) :
       /\ ~FirstRatioBelow(i, j)
       /\ Less(Div(RetR, VAbs(AquiferData[self.aq].lab2[i][j][k])), Int2V(Rzero))
  /\ \E i \in 0..(Naq - 1), j \in 0..(Nin - 1) :
       /\ FirstRatioBelow(i, j)
       /\ ret.rv[0][i][j * Npin] # Zero

====
